---- MODULE Spec2Model ----
(***************************************************************************)
(* Met Office (DataHub) integration for Home Assistant.                    *)
(*                                                                         *)
(*   metoffice_datahub_api.py  MetOfficeDataHubAPI: one aiohttp session,   *)
(*                             async_get_forecast with its retry loop,     *)
(*                             async_close                                 *)
(*   weather.py                MetOfficeDataHubWeather: async_update,      *)
(*                             async_forecast_daily / _hourly              *)
(*   __init__.py               async_setup_entry / async_unload_entry      *)
(*   config_flow.py            validate_input (the setup-time probe)       *)
(*                                                                         *)
(* Four specifications share the definitions below:                        *)
(*   SpecFetch  a caller drives async_get_forecast directly                *)
(*   Spec       the weather entity of a loaded entry: the first update,    *)
(*              polling, the readers of the views, task cancellation       *)
(*   SpecHost   the host's side: the setup-time probe, entry setup and     *)
(*              unload, and the calls they start                           *)
(*   SpecDaily  the forecast views over bounded timeSeries inputs          *)
(***************************************************************************)
EXTENDS Integers, Sequences, FiniteSets, TLC

VARIABLES
    call,          \* the async_get_forecast call in flight or last ended
    sessions,      \* every MetOfficeDataHubAPI constructed: owner, closes
    entryState,    \* the config entry: not_loaded, loaded, setup_error, failed_unload
    hassData,      \* hass.data[DOMAIN][entry_id]: index into sessions, 0 = absent
    probe,         \* validate_input: its client, its stage and what it raised
    data,          \* MetOfficeDataHubWeather._data
    available,     \* MetOfficeDataHubWeather._attr_available
    attrs,         \* the entity's current-condition attributes
    upd,           \* async_update: idle / fetching, and how the last call ended
    view           \* what the last reader of a forecast view was handed

vars == <<call, sessions, entryState, hassData, probe, data, available, attrs,
          upd, view>>

(***************************************************************************)
(* Bounds of the model.                                                    *)
(***************************************************************************)
MaxSeries == 3
MaxClients == 3

(***************************************************************************)
(* JSON values.  A dict is a record of the keys it holds ("keys") and the  *)
(* values of the keys the code reads; a key that is absent has a fixed     *)
(* filler value, so two dicts are equal exactly when they hold the same    *)
(* keys with the same values.  Python's None, and a JSON null body, is the *)
(* value None.                                                             *)
(***************************************************************************)
EntryKeys ==
    {"time", "screenTemperature", "feelsLikeTemperature",
     "screenDewPointTemperature", "screenRelativeHumidity", "mslp",
     "visibility", "windSpeed10m", "windDirectionFrom10m", "uvIndex",
     "significantWeatherCode", "precipitationRate", "probOfPrecipitation"}

EmptyEntry ==
    [keys |-> {}, time |-> "", screenTemperature |-> 0,
     feelsLikeTemperature |-> 0, screenDewPointTemperature |-> 0,
     screenRelativeHumidity |-> 0, mslp |-> 0, visibility |-> 0,
     windSpeed10m |-> 0, windDirectionFrom10m |-> 0, uvIndex |-> 0,
     significantWeatherCode |-> 0, precipitationRate |-> 0,
     probOfPrecipitation |-> 0]

EmptyProperties == [keys |-> {}, timeSeries |-> <<>>]

None == [kind |-> "None", keys |-> {}, features |-> <<>>]

EmptyDict == [kind |-> "dict", keys |-> {}, features |-> <<>>]

\* Python truthiness of None or a dict: `not x` is true of None and of {}.
Truthy(d) == d.keys # {}

\* A complete feature collection around one timeSeries.
Collection(ts) ==
    [kind |-> "dict", keys |-> {"type", "features"},
     features |-> << [keys |-> {"type", "properties"},
                      properties |-> [keys |-> {"location", "timeSeries"},
                                      timeSeries |-> ts]] >>]

(***************************************************************************)
(* const.py.                                                               *)
(***************************************************************************)
ENDPOINTS ==
    [hourly |-> "/hourly", three_hourly |-> "/three-hourly", daily |-> "/daily"]

BASE_URL == "https://data.hub.api.metoffice.gov.uk/sitespecific/v0/point"

(***************************************************************************)
(* MetOfficeDataHubAPI.async_get_forecast.                                 *)
(*                                                                         *)
(* One HTTP attempt ends in one of:                                        *)
(*   kind "error"     session.get or the body read raises a ClientError    *)
(*                    that is no ClientResponseError (connection reset,    *)
(*                    timeout, DNS failure)                                *)
(*   kind "response"  a response with a status and a body; body "json" is  *)
(*                    a JSON document (payload), "badtype" a body whose    *)
(*                    Content-Type is not JSON, "garbage" a JSON           *)
(*                    Content-Type over text that does not parse           *)
(***************************************************************************)
NoError == [type |-> "none", status |-> 0]

TransportError == [kind |-> "error", status |-> 0, body |-> "n/a", payload |-> None]

Response(status, body, payload) ==
    [kind |-> "response", status |-> status, body |-> body, payload |-> payload]

IdleCall ==
    [caller |-> "none", ftype |-> "hourly", state |-> "idle", attempt |-> 0,
     sent |-> <<>>, slept |-> <<>>, request |-> <<>>, ret |-> None, err |-> NoError]

\* range(3): the attempts are numbered 0, 1, 2.
MaxAttempts == 3

\* aiohttp's ClientResponse.ok, which raise_for_status tests: 400 > status.
ResponseOk(status) == status < 400

\* `if attempt < 2`: no wait and no retry on the last attempt.
Retry(attempt) == attempt < 2

Backoff_Linear(attempt) == 2 * attempt

\* asyncio.sleep(2 ** attempt)
Backoff(attempt) == 2 ^ attempt

Raise(c, type, status) ==
    [c EXCEPT !.state = "raised", !.err = [type |-> type, status |-> status]]

Sleep(c) ==
    [c EXCEPT !.state = "sleep", !.slept = Append(@, Backoff(c.attempt))]

\* except ClientResponseError as err
OnResponseError(c, status) ==
    IF status = 401 THEN Raise(c, "ClientResponseError", status)
    ELSE IF status = 429 /\ Retry(c.attempt) THEN Sleep(c)
    ELSE Raise(c, "ClientResponseError", status)

\* except ClientError as err
OnClientError(c) ==
    IF Retry(c.attempt) THEN Sleep(c) ELSE Raise(c, "ClientError", 0)

OnBody_ReturnNone(c, o) ==
    CASE o.body = "json" -> [c EXCEPT !.state = "returned", !.ret = None]
      [] o.body = "badtype" -> OnResponseError(c, o.status)
      [] OTHER -> Raise(c, "JSONDecodeError", 0)

\* await response.json(): the parsed body, aiohttp's ContentTypeError (a
\* ClientResponseError carrying the response's status) or json's
\* JSONDecodeError (a ValueError, which no except clause of the loop names).
OnBody(c, o) ==
    CASE o.body = "json" -> [c EXCEPT !.state = "returned", !.ret = o.payload]
      [] o.body = "badtype" -> OnResponseError(c, o.status)
      [] OTHER -> Raise(c, "JSONDecodeError", 0)

\* The lines before the loop, up to the first session.get.
BeginFetch(caller, ftype) ==
    LET c == [IdleCall EXCEPT !.caller = caller, !.ftype = ftype]
    IN IF ftype \notin DOMAIN ENDPOINTS
       THEN Raise(c, "ValueError", 0)
       ELSE [c EXCEPT !.state = "request", !.request = <<BASE_URL, ENDPOINTS[ftype]>>]

\* One pass of the loop body: the GET, raise_for_status, json, the handlers.
AfterAttempt(c, o) ==
    LET c1 == [c EXCEPT !.sent = Append(@, o)]
    IN IF o.kind = "error" THEN OnClientError(c1)
       ELSE IF ResponseOk(o.status) THEN OnBody(c1, o)
       ELSE OnResponseError(c1, o.status)

\* asyncio.sleep returns and `continue` takes the next value of range(3); when
\* there is none the loop ends and the function returns None.
AfterSleep(c) ==
    IF c.attempt + 1 < MaxAttempts
    THEN [c EXCEPT !.state = "request", !.attempt = @ + 1]
    ELSE [c EXCEPT !.state = "returned", !.ret = None]

InFlight(c) == c.state \in {"request", "sleep"}

Ended(c) == c.state \in {"returned", "raised"}

(***************************************************************************)
(* weather.py: CONDITION_MAP and the helpers of the forecast views.        *)
(***************************************************************************)
\* CONDITION_MAP.get(code, "unknown")
ConditionMap(code) ==
    CASE code = 0 -> "clear-night"
      [] code = 1 -> "sunny"
      [] code \in {2, 3} -> "partlycloudy"
      [] code \in {5, 6} -> "fog"
      [] code \in {7, 8} -> "cloudy"
      [] code \in {9, 10} -> "lightning-rainy"
      [] code \in 11..15 -> "rainy"
      [] code \in 16..18 -> "snowy-rainy"
      [] code \in 19..27 -> "snowy"
      [] code \in 28..30 -> "lightning"
      [] OTHER -> "unknown"

\* dt_util.parse_datetime(entry["time"]) followed by .date(): <<date>> for an
\* ISO 8601 timestamp, <<>> (None) for text that is no timestamp.
ParseDatetime(text) ==
    CASE text = "2024-05-01T22:00Z" -> << [year |-> 2024, month |-> 5, day |-> 1] >>
      [] text = "2024-05-01T23:00Z" -> << [year |-> 2024, month |-> 5, day |-> 1] >>
      [] text = "2024-05-02T00:00Z" -> << [year |-> 2024, month |-> 5, day |-> 2] >>
      [] text = "2024-05-02T01:00Z" -> << [year |-> 2024, month |-> 5, day |-> 2] >>
      [] OTHER -> <<>>

Range(s) == {s[i] : i \in 1..Len(s)}

RECURSIVE SumSeq(_)
SumSeq(s) == IF s = <<>> THEN 0 ELSE s[1] + SumSeq(Tail(s))

\* max(values) and min(values) of a non-empty list
MaxSeq(s) == CHOOSE x \in Range(s) : \A y \in Range(s) : y <= x

MinSeq(s) == CHOOSE x \in Range(s) : \A y \in Range(s) : x <= y

\* conditions.count(c)
Count(s, c) == Cardinality({i \in 1..Len(s) : s[i] = c})

\* The slot of a small int in CPython's 8-slot set table: hash(c) & 7.
HashSlot(c) == c % 8

\* Iteration order of set(values) for up to four small ints with distinct
\* slots: CPython walks the table by slot, not by insertion.
SetIter(S) ==
    CHOOSE order \in [1..Cardinality(S) -> S] :
        /\ \A i, j \in 1..Cardinality(S) : i < j => HashSlot(order[i]) < HashSlot(order[j])

\* max(iterable, key=f): the first item of the iteration whose key no later
\* item exceeds and no earlier item reaches.
RECURSIVE MaxByCount(_, _, _, _)
MaxByCount(order, i, best, values) ==
    IF i > Len(order) THEN best
    ELSE IF Count(values, order[i]) > Count(values, best)
         THEN MaxByCount(order, i + 1, order[i], values)
         ELSE MaxByCount(order, i + 1, best, values)

MostCommon_Least(conditions) ==
    CHOOSE c \in Range(conditions) :
        \A d \in Range(conditions) : Count(conditions, c) <= Count(conditions, d)

\* max(set(conditions), key=conditions.count)
MostCommon(conditions) ==
    LET order == SetIter(Range(conditions))
    IN MaxByCount(order, 2, order[1], conditions)

DailyKeys ==
    {"screenTemperature", "significantWeatherCode", "windSpeed10m",
     "windDirectionFrom10m", "probOfPrecipitation", "time", "precipitationRate"}

Column(entries, f) == [i \in 1..Len(entries) |-> entries[i][f]]

\* The dict _create_daily_forecast returns; wind_bearing is the quotient
\* sum(wind_bearings) / len(wind_bearings), kept as its two operands.
DailyReduce(daily_data) ==
    [datetime |-> daily_data[1].time,
     native_temperature |-> MaxSeq(Column(daily_data, "screenTemperature")),
     native_templow |-> MinSeq(Column(daily_data, "screenTemperature")),
     condition |-> ConditionMap(MostCommon(Column(daily_data, "significantWeatherCode"))),
     native_precipitation |-> SumSeq(Column(daily_data, "precipitationRate")),
     precipitation_probability |-> MaxSeq(Column(daily_data, "probOfPrecipitation")),
     wind_speed |-> MaxSeq(Column(daily_data, "windSpeed10m")),
     wind_bearing |-> [sum |-> SumSeq(Column(daily_data, "windDirectionFrom10m")),
                       over |-> Len(daily_data)]]

\* _create_daily_forecast: a KeyError when an entry lacks a key it reads.
CreateDailyForecast(daily_data) ==
    IF \E i \in 1..Len(daily_data) : ~(DailyKeys \subseteq daily_data[i].keys)
    THEN [status |-> "KeyError", list |-> <<>>]
    ELSE [status |-> "list", list |-> << DailyReduce(daily_data) >>]

\* self._data["features"][0]["properties"]["timeSeries"], as both views read it.
TimeSeriesOf(d) ==
    IF "features" \notin d.keys THEN [status |-> "KeyError", ts |-> <<>>]
    ELSE IF d.features = <<>> THEN [status |-> "IndexError", ts |-> <<>>]
    ELSE IF "properties" \notin d.features[1].keys THEN [status |-> "KeyError", ts |-> <<>>]
    ELSE IF "timeSeries" \notin d.features[1].properties.keys
         THEN [status |-> "KeyError", ts |-> <<>>]
    ELSE [status |-> "list", ts |-> d.features[1].properties.timeSeries]

\* Appending one day's forecast; a KeyError of the reducer ends the call.
Flush(acc, daily_data) ==
    IF daily_data = <<>> THEN acc
    ELSE LET f == CreateDailyForecast(daily_data)
         IN IF f.status = "list"
            THEN [acc EXCEPT !.list = @ \o f.list]
            ELSE f

GroupDays_Merging(ts, i, current_day, daily_data, acc) ==
    LET days == {ParseDatetime(ts[k].time) : k \in 1..Len(ts)} \ {<<>>}
        first(d) == CHOOSE k \in 1..Len(ts) :
                        /\ ParseDatetime(ts[k].time) = d
                        /\ \A j \in 1..(k - 1) : ParseDatetime(ts[j].time) # d
        order == CHOOSE o \in [1..Cardinality(days) -> days] :
                     \A a, b \in 1..Cardinality(days) : a < b => first(o[a]) < first(o[b])
        pick(d) == {k \in 1..Len(ts) : ParseDatetime(ts[k].time) = d}
        sub(d) == [n \in 1..Cardinality(pick(d)) |->
                      ts[CHOOSE k \in pick(d) :
                             Cardinality({j \in pick(d) : j < k}) = n - 1]]
    IN [status |-> "list",
        list |-> [n \in 1..Cardinality(days) |-> DailyReduce(sub(order[n]))]]

\* The loop of async_forecast_daily from entry i on, then the last day.
RECURSIVE GroupDays(_, _, _, _, _)
GroupDays(ts, i, current_day, daily_data, acc) ==
    IF acc.status # "list" THEN acc
    ELSE IF i > Len(ts) THEN Flush(acc, daily_data)
    ELSE IF "time" \notin ts[i].keys THEN [status |-> "KeyError", list |-> <<>>]
    ELSE LET timestamp == ParseDatetime(ts[i].time)
         IN IF timestamp = <<>>
            THEN GroupDays(ts, i + 1, current_day, daily_data, acc)
            ELSE IF current_day = <<>> \/ timestamp = current_day
            THEN GroupDays(ts, i + 1, timestamp, Append(daily_data, ts[i]), acc)
            ELSE GroupDays(ts, i + 1, timestamp, <<ts[i]>>, Flush(acc, daily_data))

\* async_forecast_daily
ForecastDaily(d) ==
    IF ~Truthy(d) THEN [status |-> "None", list |-> <<>>]
    ELSE LET t == TimeSeriesOf(d)
         IN IF t.status # "list" THEN [status |-> t.status, list |-> <<>>]
            ELSE GroupDays(t.ts, 1, <<>>, <<>>, [status |-> "list", list |-> <<>>])

HourlyKeys ==
    {"time", "screenTemperature", "significantWeatherCode", "precipitationRate",
     "probOfPrecipitation", "windSpeed10m", "windDirectionFrom10m"}

HourlyRecord(entry) ==
    [datetime |-> entry.time,
     native_temperature |-> entry.screenTemperature,
     condition |-> ConditionMap(entry.significantWeatherCode),
     native_precipitation |-> entry.precipitationRate,
     precipitation_probability |-> entry.probOfPrecipitation,
     wind_speed |-> entry.windSpeed10m,
     wind_bearing |-> entry.windDirectionFrom10m]

\* async_forecast_hourly
ForecastHourly(d) ==
    IF ~Truthy(d) THEN [status |-> "None", list |-> <<>>]
    ELSE LET t == TimeSeriesOf(d)
         IN IF t.status # "list" THEN [status |-> t.status, list |-> <<>>]
            ELSE IF \E i \in 1..Len(t.ts) : ~(HourlyKeys \subseteq t.ts[i].keys)
            THEN [status |-> "KeyError", list |-> <<>>]
            ELSE [status |-> "list",
                  list |-> [i \in 1..Len(t.ts) |-> HourlyRecord(t.ts[i])]]

(***************************************************************************)
(* weather.py: MetOfficeDataHubWeather.async_update.                       *)
(***************************************************************************)
\* The attributes in the order async_update assigns them, each with the key
\* of the first timeSeries entry it reads.
AttrOrder ==
    << <<"native_temperature", "screenTemperature">>,
       <<"native_apparent_temperature", "feelsLikeTemperature">>,
       <<"native_dew_point", "screenDewPointTemperature">>,
       <<"humidity", "screenRelativeHumidity">>,
       <<"native_pressure", "mslp">>,
       <<"native_visibility", "visibility">>,
       <<"native_wind_speed", "windSpeed10m">>,
       <<"wind_bearing", "windDirectionFrom10m">>,
       <<"uv_index", "uvIndex">>,
       <<"condition", "significantWeatherCode">> >>

AttrNames == {AttrOrder[i][1] : i \in 1..Len(AttrOrder)}

\* An attribute never assigned is <<>>, an assigned one <<value>>.
NoAttrs == [a \in AttrNames |-> <<>>]

\* current["mslp"] / 100: pascals to hectopascals, as whole and hundredths.
ToHPa(mslp) == [whole |-> mslp \div 100, hundredths |-> mslp % 100]

AttrValue(i, current) ==
    CASE AttrOrder[i][1] = "native_pressure" -> ToHPa(current.mslp)
      [] AttrOrder[i][1] = "condition" -> ConditionMap(current.significantWeatherCode)
      [] OTHER -> current[AttrOrder[i][2]]

\* The assignments of lines 149-160: those before the first missing key take
\* effect, the missing key raises KeyError.
AssignAttrs(old, current) ==
    LET missing == {i \in 1..Len(AttrOrder) : AttrOrder[i][2] \notin current.keys}
        stop == IF missing = {} THEN Len(AttrOrder) + 1
                ELSE CHOOSE i \in missing : \A j \in missing : i <= j
    IN [result |-> IF missing = {} THEN "returned" ELSE "KeyError",
        attrs |-> [a \in AttrNames |->
                     LET i == CHOOSE k \in 1..Len(AttrOrder) : AttrOrder[k][1] = a
                     IN IF i < stop THEN << AttrValue(i, current) >> ELSE old[a]]]

\* Lines 127-160, run on the data just stored: how the call ends and the
\* attributes it leaves.
Validate(d, old) ==
    IF ~Truthy(d) \/ "features" \notin d.keys
    THEN [result |-> "returned", attrs |-> old]
    ELSE IF d.features = <<>>
    THEN [result |-> "IndexError", attrs |-> old]
    ELSE IF ~Truthy(d.features[1]) \/ "properties" \notin d.features[1].keys
    THEN [result |-> "returned", attrs |-> old]
    ELSE IF \/ ~Truthy(d.features[1].properties)
            \/ "timeSeries" \notin d.features[1].properties.keys
    THEN [result |-> "returned", attrs |-> old]
    ELSE IF d.features[1].properties.timeSeries = <<>>
    THEN [result |-> "IndexError", attrs |-> old]
    ELSE IF ~Truthy(d.features[1].properties.timeSeries[1])
    THEN [result |-> "returned", attrs |-> old]
    ELSE AssignAttrs(old, d.features[1].properties.timeSeries[1])

UpdateAfter_ClearOnError(c, oldData, oldAvailable, oldAttrs) ==
    IF c.state = "raised"
    THEN [data |-> None, available |-> FALSE, attrs |-> oldAttrs,
          result |-> "returned"]
    ELSE LET v == Validate(c.ret, oldAttrs)
         IN [data |-> c.ret, available |-> TRUE, attrs |-> v.attrs,
             result |-> v.result]

\* async_update from the point where async_get_forecast has ended (c): the
\* try/except of lines 119-125, then the validation.
UpdateAfter(c, oldData, oldAvailable, oldAttrs) ==
    IF c.state = "raised"
    THEN [data |-> oldData, available |-> FALSE, attrs |-> oldAttrs,
          result |-> "returned"]
    ELSE LET v == Validate(c.ret, oldAttrs)
         IN [data |-> c.ret, available |-> TRUE, attrs |-> v.attrs,
             result |-> v.result]

UpdateCancelled_Clear(oldData, oldAvailable, oldAttrs) ==
    [data |-> None, available |-> oldAvailable, attrs |-> oldAttrs,
     result |-> "cancelled"]

\* The update task is cancelled while async_get_forecast awaits the network
\* or sleeps: CancelledError is no Exception, so the except clause does not
\* run and nothing is assigned.
UpdateCancelled(oldData, oldAvailable, oldAttrs) ==
    [data |-> oldData, available |-> oldAvailable, attrs |-> oldAttrs,
     result |-> "cancelled"]

(***************************************************************************)
(* Clients: MetOfficeDataHubAPI.__init__ and async_close.                  *)
(***************************************************************************)
\* MetOfficeDataHubAPI(...): a new aiohttp.ClientSession, owned by `owner`.
Construct(ss, owner) == Append(ss, [owner |-> owner, closes |-> 0])

\* await api.async_close() on client i
Close(ss, i) == [ss EXCEPT ![i].closes = @ + 1]

(***************************************************************************)
(* Inputs.                                                                 *)
(***************************************************************************)
\* What a caller may pass as forecast_type; "weekly" is no key of ENDPOINTS.
ForecastTypes == {"hourly", "three_hourly", "daily", "weekly"}

Entry(time, temp, code, precip, wind, bearing, prob) ==
    [EmptyEntry EXCEPT
        !.keys = EntryKeys, !.time = time, !.screenTemperature = temp,
        !.feelsLikeTemperature = temp - 2, !.screenDewPointTemperature = temp - 5,
        !.screenRelativeHumidity = 80, !.mslp = 101325, !.visibility = 20000,
        !.windSpeed10m = wind, !.windDirectionFrom10m = bearing, !.uvIndex = 1,
        !.significantWeatherCode = code, !.precipitationRate = precip,
        !.probOfPrecipitation = prob]

EntryA == Entry("2024-05-01T23:00Z", 9, 7, 0, 3, 350, 10)

EntryB == Entry("2024-05-02T00:00Z", 14, 99, 2, 6, 10, 60)

\* A first entry without mslp.
EntryNoMslp == [EntryA EXCEPT !.keys = EntryKeys \ {"mslp"}, !.mslp = 0]

\* The JSON documents the provider may answer with: null, {}, documents that
\* miss a level of features / properties / timeSeries, empty lists, an empty
\* or incomplete first entry, and complete ones.
FetchPayloads ==
    { None,
      EmptyDict,
      [kind |-> "dict", keys |-> {"type"}, features |-> <<>>],
      [kind |-> "dict", keys |-> {"type", "features"}, features |-> <<>>],
      [kind |-> "dict", keys |-> {"type", "features"},
       features |-> << [keys |-> {"type"}, properties |-> EmptyProperties] >>],
      [kind |-> "dict", keys |-> {"type", "features"},
       features |-> << [keys |-> {"type", "properties"},
                        properties |-> [keys |-> {"location"}, timeSeries |-> <<>>]] >>],
      Collection(<<>>),
      Collection(<< EmptyEntry >>),
      Collection(<< EntryNoMslp, EntryB >>),
      Collection(<< EntryA, EntryB >>),
      Collection(<< EntryA >>) }

\* Statuses a response may carry: success, a 3xx that aiohttp hands back
\* (300 Multiple Choices has no Location to follow), 401, 429, a server error.
Statuses == {200, 300, 401, 429, 500}

Outcomes ==
    {TransportError}
    \cup {Response(s, "n/a", None) : s \in {s \in Statuses : ~ResponseOk(s)}}
    \cup {Response(s, "json", p) : s \in {s \in Statuses : ResponseOk(s)},
                                   p \in FetchPayloads}
    \cup {Response(s, b, None) : s \in {s \in Statuses : ResponseOk(s)},
                                 b \in {"badtype", "garbage"}}

\* timeSeries entries of the forecast views' inputs: three timestamps over
\* two dates and one text that is no timestamp, three sets of readings.
DailyTimes ==
    {"2024-05-01T22:00Z", "2024-05-01T23:00Z", "2024-05-02T00:00Z", "n/a"}

DailyEntries ==
    {Entry(t, 9, 7, 0, 3, 350, 10) : t \in DailyTimes}
    \cup {Entry(t, 14, 1, 2, 6, 10, 60) : t \in DailyTimes}
    \cup {Entry(t, -2, 12, 5, 1, 180, 90) : t \in DailyTimes}

SeriesUpTo(n) == UNION {[1..k -> DailyEntries] : k \in 0..n}

(***************************************************************************)
(* State.                                                                  *)
(***************************************************************************)
NotCalled ==
    [fn |-> "none", status |-> "not_called", hourly |-> <<>>, daily |-> <<>>,
     at |-> "idle"]

IdleProbe == [state |-> "idle", client |-> 0, result |-> "none"]

IdleUpdate == [state |-> "idle", result |-> "none"]

\* Nothing constructed yet.
InitBlank ==
    /\ call = IdleCall
    /\ sessions = <<>>
    /\ entryState = "not_loaded"
    /\ hassData = 0
    /\ probe = IdleProbe
    /\ data = None
    /\ available = FALSE
    /\ attrs = NoAttrs
    /\ upd = IdleUpdate
    /\ view = NotCalled

entityVars == <<data, available, attrs, upd>>

viewVars == <<view>>

hostVars == <<sessions, entryState, hassData, probe>>

(***************************************************************************)
(* The continuations of the two callers of async_get_forecast.  A call     *)
(* that has ended resumes its caller in the same step: between the return  *)
(* (or raise) of the coroutine and the caller's next lines nothing else    *)
(* runs.                                                                   *)
(***************************************************************************)
\* async_update around the call c, over the entity's state before the call.
ApplyUpdate(c, d, av, at) ==
    IF Ended(c)
    THEN LET u == UpdateAfter(c, d, av, at)
         IN /\ data' = u.data
            /\ available' = u.available
            /\ attrs' = u.attrs
            /\ upd' = [state |-> "idle", result |-> u.result]
    ELSE /\ data' = d
         /\ available' = av
         /\ attrs' = at
         /\ upd' = [state |-> "fetching", result |-> "none"]

\* validate_input around the call c on its own client: CannotConnect on any
\* Exception, async_close in the finally clause.
ApplyProbe(c, ss, client) ==
    IF Ended(c)
    THEN /\ sessions' = Close(ss, client)
         /\ probe' = [state |-> "idle", client |-> client,
                      result |-> IF c.state = "returned" THEN "title"
                                 ELSE "CannotConnect"]
    ELSE /\ sessions' = ss
         /\ probe' = [state |-> "running", client |-> client, result |-> "none"]

Resume(c) ==
    /\ call' = c
    /\ CASE c.caller = "update" ->
              /\ ApplyUpdate(c, data, available, attrs)
              /\ UNCHANGED <<hostVars, viewVars>>
         [] c.caller = "probe" ->
              /\ ApplyProbe(c, sessions, probe.client)
              /\ UNCHANGED <<entryState, hassData, entityVars, viewVars>>
         [] OTHER -> UNCHANGED <<hostVars, entityVars, viewVars>>

(***************************************************************************)
(* Actions.  One async_get_forecast call is in flight at a time: the probe  *)
(* and the entity each use their own client, and a second call would only  *)
(* repeat the first one's steps on separate state.                         *)
(***************************************************************************)
\* A caller of the client calls async_get_forecast(ft).
DirectCall(ft) ==
    /\ ~InFlight(call)
    /\ call' = BeginFetch("direct", ft)
    /\ UNCHANGED <<hostVars, entityVars, viewVars>>

\* One attempt of the retry loop with outcome o.
HttpAttempt(o) ==
    /\ call.state = "request"
    /\ Resume(AfterAttempt(call, o))

\* The backoff sleep is over.
SleepDone ==
    /\ call.state = "sleep"
    /\ Resume(AfterSleep(call))

\* config_flow.validate_input, up to the first await of its probe.
ValidateInput ==
    /\ ~InFlight(call)
    /\ Len(sessions) < MaxClients
    /\ call' = BeginFetch("probe", "hourly")
    /\ ApplyProbe(call', Construct(sessions, "probe"), Len(sessions) + 1)
    /\ UNCHANGED <<entryState, hassData, entityVars, viewVars>>

\* __init__.async_setup_entry.  Forwarding to the weather platform either
\* raises, or creates the entity, whose async_added_to_hass starts the first
\* async_update.
SetupEntry ==
    /\ entryState \in {"not_loaded", "setup_error"}
    /\ ~InFlight(call)
    /\ Len(sessions) < MaxClients
    /\ sessions' = Construct(sessions, "entry")
    /\ hassData' = Len(sessions) + 1
    /\ UNCHANGED <<probe>>
    /\ \/ /\ entryState' = "setup_error"
          /\ UNCHANGED <<call, entityVars, viewVars>>
       \/ /\ entryState' = "loaded"
          /\ call' = BeginFetch("update", "hourly")
          /\ ApplyUpdate(call', None, FALSE, NoAttrs)
          /\ view' = NotCalled

\* __init__.async_unload_entry.  When the platforms unload, the entity is
\* gone and the client is popped and closed; when they do not, nothing is.
UnloadEntry ==
    /\ entryState = "loaded"
    /\ ~InFlight(call)
    /\ UNCHANGED <<call, probe>>
    /\ \/ /\ entryState' = "not_loaded"
          /\ sessions' = Close(sessions, hassData)
          /\ hassData' = 0
          /\ data' = None
          /\ available' = FALSE
          /\ attrs' = NoAttrs
          /\ upd' = IdleUpdate
          /\ view' = NotCalled
       \/ /\ entryState' = "failed_unload"
          /\ UNCHANGED <<sessions, hassData, entityVars, viewVars>>

EntityPresent == entryState \in {"loaded", "failed_unload"}

\* The host polls: async_update, up to the first await of its fetch.
AsyncUpdate ==
    /\ EntityPresent
    /\ ~InFlight(call)
    /\ call' = BeginFetch("update", "hourly")
    /\ ApplyUpdate(call', data, available, attrs)
    /\ UNCHANGED <<hostVars, viewVars>>

\* The host cancels the task that awaits the fetch.
Cancel ==
    /\ InFlight(call)
    /\ call' = [call EXCEPT !.state = "cancelled"]
    /\ \/ /\ call.caller = "update"
          /\ LET u == UpdateCancelled(data, available, attrs)
             IN /\ data' = u.data
                /\ available' = u.available
                /\ attrs' = u.attrs
                /\ upd' = [state |-> "idle", result |-> u.result]
          /\ UNCHANGED <<hostVars, viewVars>>
       \/ /\ call.caller = "probe"
          /\ sessions' = Close(sessions, probe.client)
          /\ probe' = [probe EXCEPT !.state = "idle", !.result = "CancelledError"]
          /\ UNCHANGED <<entryState, hassData, entityVars, viewVars>>

\* Where the refresh stands, as a reader of a view finds it.
RefreshStage == IF call.caller = "update" /\ InFlight(call) THEN call.state ELSE "idle"

\* A reader task calls async_forecast_hourly.
AsyncForecastHourly ==
    /\ EntityPresent
    /\ LET r == ForecastHourly(data)
       IN view' = [fn |-> "hourly", status |-> r.status, hourly |-> r.list,
                   daily |-> <<>>, at |-> RefreshStage]
    /\ UNCHANGED <<call, hostVars, entityVars>>

\* A reader task calls async_forecast_daily.
AsyncForecastDaily ==
    /\ EntityPresent
    /\ LET r == ForecastDaily(data)
       IN view' = [fn |-> "daily", status |-> r.status, hourly |-> <<>>,
                   daily |-> r.list, at |-> RefreshStage]
    /\ UNCHANGED <<call, hostVars, entityVars>>

\* The entity as weather.async_setup_entry creates it for a client that
\* __init__.async_setup_entry has just stored: async_added_to_hass has started
\* the first async_update.
Init ==
    /\ call = BeginFetch("update", "hourly")
    /\ sessions = Construct(<<>>, "entry")
    /\ entryState = "loaded"
    /\ hassData = 1
    /\ probe = IdleProbe
    /\ data = None
    /\ available = FALSE
    /\ attrs = NoAttrs
    /\ upd = [state |-> "fetching", result |-> "none"]
    /\ view = NotCalled

Next ==
    \/ AsyncUpdate
    \/ \E o \in Outcomes : HttpAttempt(o)
    \/ SleepDone
    \/ Cancel
    \/ AsyncForecastHourly
    \/ AsyncForecastDaily

Spec == Init /\ [][Next]_vars

\* The host: probes from the config flow, setup and unload of the entry, and
\* the fetches these start.
NextHost ==
    \/ ValidateInput
    \/ SetupEntry
    \/ UnloadEntry
    \/ \E o \in Outcomes : HttpAttempt(o)
    \/ SleepDone
    \/ Cancel

SpecHost == InitBlank /\ [][NextHost]_vars

\* The client alone, driven by a caller.
NextFetch ==
    \/ \E ft \in ForecastTypes : DirectCall(ft)
    \/ \E o \in Outcomes : HttpAttempt(o)
    \/ SleepDone

SpecFetch == InitBlank /\ [][NextFetch]_vars

\* The entity after a first refresh that stored a complete feature collection
\* around a timeSeries of up to MaxSeries entries.
InitDaily ==
    \E ts \in SeriesUpTo(MaxSeries) :
        LET c == AfterAttempt(BeginFetch("update", "hourly"),
                              Response(200, "json", Collection(ts)))
            u == UpdateAfter(c, None, FALSE, NoAttrs)
        IN /\ call = c
           /\ sessions = Construct(<<>>, "entry")
           /\ entryState = "loaded"
           /\ hassData = 1
           /\ probe = IdleProbe
           /\ data = u.data
           /\ available = u.available
           /\ attrs = u.attrs
           /\ upd = [state |-> "idle", result |-> u.result]
           /\ view = NotCalled

NextDaily ==
    \/ AsyncForecastHourly
    \/ AsyncForecastDaily

SpecDaily == InitDaily /\ [][NextDaily]_vars

(***************************************************************************)
(* Properties of async_get_forecast (SpecFetch).                           *)
(***************************************************************************)
Is2xx(status) == 200 <= status /\ status < 300

\* An attempt that failed retryably: a transport-level error or HTTP 429.
Retryable(o) == o.kind = "error" \/ (o.kind = "response" /\ o.status = 429)

Last(s) == s[Len(s)]

C2_NoRetryOnOtherStatus ==
    \A i \in 1..Len(call.sent) :
        ( /\ call.sent[i].kind = "response"
          /\ ~Is2xx(call.sent[i].status)
          /\ call.sent[i].status # 429 )
        => /\ i = Len(call.sent)
           /\ call.state = "raised"
           /\ Len(call.slept) = i - 1

\* C3: when the first k attempts (k = 1 or 2) failed retryably and attempt
\* k+1 got a 2xx response with a JSON body, the call has returned that body's
\* document and made exactly k+1 attempts.
C3_SuccessAfterRetry ==
    \A k \in {1, 2} :
        ( /\ Len(call.sent) = k + 1
          /\ \A i \in 1..k : Retryable(call.sent[i])
          /\ Last(call.sent).kind = "response"
          /\ Is2xx(Last(call.sent).status)
          /\ Last(call.sent).body = "json" )
        => /\ call.state = "returned"
           /\ call.ret = Last(call.sent).payload
           /\ call.attempt = k

\* One transient connection error, then a success with a complete document.
C3_Witness ==
    /\ call.state = "returned"
    /\ Len(call.sent) = 2
    /\ call.sent[1] = TransportError
    /\ call.sent[2].status = 200
    /\ call.ret = Collection(<< EntryA, EntryB >>)

(***************************************************************************)
(* Properties of async_update and of the views' readers (Spec).            *)
(***************************************************************************)
\* C4: an async_update whose fetch raises ends with the entity unavailable
\* and with _data as it was before that update, and returns normally.
C4_FailedRefreshKeepsData ==
    [][ ( /\ upd.state = "fetching"
          /\ upd'.state = "idle"
          /\ call'.state = "raised" )
        => /\ available' = FALSE
           /\ data' = data
           /\ upd'.result = "returned" ]_vars

\* A refresh has just failed over a stored response of an earlier cycle.
C4_Witness ==
    /\ upd = [state |-> "idle", result |-> "returned"]
    /\ call.caller = "update"
    /\ call.state = "raised"
    /\ data = Collection(<< EntryA, EntryB >>)
    /\ ~available

\* The structural shape async_update is to validate: features present and
\* non-empty, properties present, timeSeries present and non-empty.
Malformed(d) ==
    \/ "features" \notin d.keys
    \/ d.features = <<>>
    \/ "properties" \notin d.features[1].keys
    \/ "timeSeries" \notin d.features[1].properties.keys
    \/ d.features[1].properties.timeSeries = <<>>

\* C5: after an update whose fetch returned a malformed document, the entity
\* is unavailable.
C5_MalformedUnavailable ==
    ( /\ upd.state = "idle"
      /\ call.caller = "update"
      /\ call.state = "returned"
      /\ Malformed(call.ret) )
    => ~available

\* C6: whatever the fetch raised or returned, async_update returns normally:
\* no IndexError or KeyError leaves it.
C6_NoExceptionEscapes == upd.result \notin {"IndexError", "KeyError"}

\* C10: _data changes only in the step in which an async_update's fetch
\* returns, and then to exactly the document returned; while the fetch awaits
\* or sleeps, and when it fails or is cancelled, _data stays what it was; and
\* a reader is handed the view of the _data stored at that moment.
C10_ReplaceAsAWhole ==
    [][ /\ data' # data =>
              /\ upd.state = "fetching"
              /\ call.state = "request"
              /\ call'.state = "returned"
              /\ data' = call'.ret
        /\ view' # view =>
              /\ data' = data
              /\ view'.fn = "hourly" =>
                    view'.hourly = ForecastHourly(data).list
              /\ view'.fn = "daily" =>
                    view'.daily = ForecastDaily(data).list ]_vars

\* A reader got the hourly view of the previous response while the refresh
\* slept in its backoff.
C10_Witness ==
    /\ call.caller = "update"
    /\ call.state = "sleep"
    /\ view.fn = "hourly"
    /\ view.at = "sleep"
    /\ view.status = "list"
    /\ Len(view.hourly) = 2
    /\ data = Collection(<< EntryA, EntryB >>)

(***************************************************************************)
(* Property of the clients' life (SpecHost).                               *)
(***************************************************************************)
\* A client is needed while the probe that made it runs, or while the entry
\* that holds it is loaded.
Needed(i) ==
    IF sessions[i].owner = "probe"
    THEN probe.state = "running" /\ probe.client = i
    ELSE entryState = "loaded" /\ hassData = i

\* C9: no client is closed twice, and every client that is no longer needed
\* has been closed once.
C9_ClosedExactlyOnce ==
    \A i \in 1..Len(sessions) :
        /\ sessions[i].closes <= 1
        /\ ~Needed(i) => sessions[i].closes = 1

(***************************************************************************)
(* Properties of async_forecast_daily (SpecDaily).                         *)
(***************************************************************************)
\* The stored timeSeries without the entries whose timestamp does not parse.
Parsed == SelectSeq(TimeSeriesOf(data).ts, LAMBDA e : ParseDatetime(e.time) # <<>>)

\* The positions of Parsed that start a run: the first, and every entry whose
\* date differs from its predecessor's.
RunStarts ==
    {i \in 1..Len(Parsed) :
        i = 1 \/ ParseDatetime(Parsed[i].time) # ParseDatetime(Parsed[i - 1].time)}

\* The j-th run, as the interval of positions it covers.
RunStart(j) ==
    CHOOSE i \in RunStarts : Cardinality({k \in RunStarts : k < i}) = j - 1

RunEnd(j) ==
    IF j = Cardinality(RunStarts) THEN Len(Parsed) ELSE RunStart(j + 1) - 1

Run(j) == RunStart(j)..RunEnd(j)

\* C7: the daily view has one record per maximal run of adjacent parsed
\* entries of one date, in input order, each reducing the entries of its own
\* run: the first timestamp, the highest and lowest screenTemperature, the
\* sum of precipitationRate.
C7_OneRecordPerRun ==
    view.fn = "daily" =>
        /\ view.status = "list"
        /\ Len(view.daily) = Cardinality(RunStarts)
        /\ \A j \in 1..Len(view.daily) :
              LET rec == view.daily[j]
                  temps == {Parsed[i].screenTemperature : i \in Run(j)}
              IN /\ rec.datetime = Parsed[RunStart(j)].time
                 /\ rec.native_temperature \in temps
                 /\ \A t \in temps : t <= rec.native_temperature
                 /\ rec.native_templow \in temps
                 /\ \A t \in temps : rec.native_templow <= t
                 /\ rec.native_precipitation =
                        SumSeq([n \in 1..(RunEnd(j) - RunStart(j) + 1) |->
                                   Parsed[RunStart(j) + n - 1].precipitationRate])

\* Two runs of one date around a run of another date, kept apart.
C7_Witness ==
    /\ view.fn = "daily"
    /\ Len(view.daily) = 3
    /\ ParseDatetime(view.daily[1].datetime) = ParseDatetime(view.daily[3].datetime)
    /\ view.daily[1].datetime # view.daily[3].datetime

\* The codes of run j in entry order.
RunCodes(j) ==
    [n \in 1..(RunEnd(j) - RunStart(j) + 1) |->
        Parsed[RunStart(j) + n - 1].significantWeatherCode]

MostFrequent(codes) ==
    {c \in Range(codes) : \A d \in Range(codes) : Count(codes, d) <= Count(codes, c)}

\* Among the most frequent codes, the one that occurs first in entry order.
FirstEncountered(codes) ==
    codes[CHOOSE i \in 1..Len(codes) :
              /\ codes[i] \in MostFrequent(codes)
              /\ \A k \in 1..(i - 1) : codes[k] \notin MostFrequent(codes)]

\* C8 as stated: a day's condition is the mapping of its most frequent code,
\* ties going to the code that occurs first in the day's entries.
C8_TieToFirstEncountered ==
    view.fn = "daily" =>
        \A j \in 1..Len(view.daily) :
            view.daily[j].condition = ConditionMap(FirstEncountered(RunCodes(j)))

\* C8 as amended: a day's condition is the mapping of one of its most
\* frequent codes.
C8_AMostFrequentCode ==
    view.fn = "daily" =>
        \A j \in 1..Len(view.daily) :
            \E c \in MostFrequent(RunCodes(j)) :
                view.daily[j].condition = ConditionMap(c)

\* A day of codes [7, 1]: both occur once, and the condition is that of 1.
C8_Witness ==
    /\ view.fn = "daily"
    /\ Len(view.daily) = 1
    /\ RunCodes(1) = <<7, 1>>
    /\ view.daily[1].condition = "sunny"

====
